---- MODULE Spec2Model ----
(***************************************************************************)
(* Model of scripts/make_cards.py (card generation for "Extremadura en     *)
(* Datos"): the value and period normalizers, the JSON shape detection of  *)
(* read_json, the delta computation and the main() loop.                   *)
(*                                                                         *)
(* Python strings are sequences of one-character strings; Python values    *)
(* are records tagged by their type in field t.                            *)
(***************************************************************************)
EXTENDS Integers, Sequences, FiniteSets, TLC

(***************************************************************************)
(* Strings                                                                 *)
(***************************************************************************)

\* The characters of the model, in code point order (str comparison and
\* out.sort compare strings code point by code point).
Alphabet ==
  << " ", "+", ",", "-", ".", "/",
     "0", "1", "2", "3", "4", "5", "6", "7", "8", "9",
     "A", "M", "N", "Q", "T", "a", "b", "e", "f", "i", "m", "n", "o", "q", "t", "y" >>

Ord(c) == CHOOSE i \in 1..Len(Alphabet) : Alphabet[i] = c

Digits == {"0", "1", "2", "3", "4", "5", "6", "7", "8", "9"}

DigitVal(c) == Ord(c) - Ord("0")

IsSpace(c) == c = " "

AllDigits(s) == \A i \in 1..Len(s) : s[i] \in Digits

\* int() of a string of decimal digits
RECURSIVE DigitsToInt(_)
DigitsToInt(s) ==
  IF Len(s) = 0 THEN 0
  ELSE 10 * DigitsToInt(SubSeq(s, 1, Len(s) - 1)) + DigitVal(s[Len(s)])

\* str() of a non-negative int
RECURSIVE NatToStr(_)
NatToStr(n) ==
  IF n < 10 THEN << Alphabet[Ord("0") + n] >>
  ELSE NatToStr(n \div 10) \o << Alphabet[Ord("0") + (n % 10)] >>

IntToStr(n) == IF n < 0 THEN << "-" >> \o NatToStr(0 - n) ELSE NatToStr(n)

\* format(n, "0<w>d") for n >= 0
RECURSIVE ZeroPad(_, _)
ZeroPad(s, w) == IF Len(s) >= w THEN s ELSE ZeroPad(<< "0" >> \o s, w)

Fmt04d(n) == ZeroPad(NatToStr(n), 4)

Fmt02d(n) == ZeroPad(NatToStr(n), 2)

\* str.strip()
RECURSIVE LStrip(_)
LStrip(s) == IF Len(s) > 0 /\ IsSpace(s[1]) THEN LStrip(Tail(s)) ELSE s

RECURSIVE RStrip(_)
RStrip(s) ==
  IF Len(s) > 0 /\ IsSpace(s[Len(s)]) THEN RStrip(SubSeq(s, 1, Len(s) - 1)) ELSE s

Strip(s) == RStrip(LStrip(s))

LowerChar(c) ==
  CASE c = "A" -> "a"
    [] c = "M" -> "m"
    [] c = "N" -> "n"
    [] c = "T" -> "t"
    [] c = "Q" -> "q"
    [] OTHER -> c

\* str.lower()
Lower(s) == [i \in 1..Len(s) |-> LowerChar(s[i])]

\* s.replace(a, "") for a one-character a
Remove(s, a) == SelectSeq(s, LAMBDA c : c # a)

\* s.replace(a, b) for one-character a and b
Replace(s, a, b) == [i \in 1..Len(s) |-> IF s[i] = a THEN b ELSE s[i]]

\* s < t for Python strings
RECURSIVE StrLess(_, _)
StrLess(s, t) ==
  IF Len(t) = 0 THEN FALSE
  ELSE IF Len(s) = 0 THEN TRUE
  ELSE IF s[1] # t[1] THEN Ord(s[1]) < Ord(t[1])
  ELSE StrLess(Tail(s), Tail(t))

(***************************************************************************)
(* Python values                                                           *)
(***************************************************************************)

None == [t |-> "null"]

Str(s) == [t |-> "str", s |-> s]

\* an int n = q * 1000 + r, kept in two parts so that epoch milliseconds fit
PyInt(q, r) == [t |-> "int", q |-> q, r |-> r]

Small(n) == PyInt(n \div 1000, n % 1000)

IntVal(x) == x.q * 1000 + x.r

\* an int too large for a double (abs(n) >= 2**1024)
HugeInt == [t |-> "hugeint"]

RECURSIVE Pow10(_)
Pow10(d) == IF d = 0 THEN 1 ELSE 10 * Pow10(d - 1)

\* a finite float m / 10^d, with no trailing zero in m when d > 0
RECURSIVE Fin(_, _)
Fin(m, d) ==
  IF d > 0 /\ m % 10 = 0 THEN Fin(m \div 10, d - 1)
  ELSE [t |-> "float", k |-> "fin", m |-> m, d |-> d]

NaN == [t |-> "float", k |-> "nan", m |-> 0, d |-> 0]

\* sign is 1 or -1
Inf(sign) == [t |-> "float", k |-> "inf", m |-> sign, d |-> 0]

\* a pandas.Timestamp / datetime in month m of year y
Timestamp(y, m) == [t |-> "ts", y |-> y, m |-> m]

\* an exception leaving the function
Raise(e) == [t |-> "raise", exc |-> e]

IsFinite(x) == x.t = "float" /\ x.k = "fin"

IsNaN(x) == x.t = "float" /\ x.k = "nan"

\* bool(x)
Truthy(x) ==
  CASE x.t = "null" -> FALSE
    [] x.t = "str" -> Len(x.s) > 0
    [] x.t = "int" -> ~(x.q = 0 /\ x.r = 0)
    [] x.t = "hugeint" -> TRUE
    [] x.t = "float" -> ~(x.k = "fin" /\ x.m = 0)
    [] x.t = "list" -> Len(x.items) > 0
    [] x.t = "dict" -> DOMAIN x.d # {}
    [] OTHER -> TRUE

\* a or b
Or(a, b) == IF Truthy(a) THEN a ELSE b

\* d.get(k) on a dict d (a function from its keys)
Get(d, k) == IF k \in DOMAIN d THEN d[k] ELSE None

(***************************************************************************)
(* to_float                                                                *)
(***************************************************************************)

\* float(s) for a string: optional sign, then "nan", "inf", "infinity" in any
\* case or decimal digits with at most one point (exponents and underscores,
\* which float() also accepts, are outside the strings of the model).
\* Returns the float or Raise("ValueError").
FloatOfStr(s0) ==
  LET s == Strip(s0)
      signed == Len(s) > 0 /\ s[1] \in {"+", "-"}
      sign == IF signed /\ s[1] = "-" THEN -1 ELSE 1
      body == IF signed THEN Tail(s) ELSE s
      low == Lower(body)
      points == {i \in 1..Len(body) : body[i] = "."}
      p == IF points = {} THEN Len(body) + 1 ELSE CHOOSE i \in points : TRUE
      ip == SubSeq(body, 1, p - 1)
      fp == SubSeq(body, p + 1, Len(body))
  IN  IF low = << "n", "a", "n" >> THEN NaN
      ELSE IF low = << "i", "n", "f" >>
              \/ low = << "i", "n", "f", "i", "n", "i", "t", "y" >> THEN Inf(sign)
      ELSE IF /\ Cardinality(points) <= 1
              /\ AllDigits(ip) /\ AllDigits(fp)
              /\ Len(ip) + Len(fp) > 0
           THEN Fin(sign * DigitsToInt(ip \o fp), Len(fp))
      ELSE Raise("ValueError")

to_float(x) ==
  IF x.t = "null" \/ IsNaN(x) THEN None
  ELSE IF x.t = "int" THEN Fin(IntVal(x), 0)
  ELSE IF x.t = "hugeint" THEN Raise("OverflowError")
  ELSE IF x.t = "float" THEN x
  ELSE LET s == Strip(x.s)
           f == FloatOfStr(Replace(Remove(s, "."), ",", "."))
       IN  IF s = << >> \/ Lower(s) \in { << "n", "a", "n" >>, << "n", "a" >>,
                                         << "n", "o", "n", "e" >> }
           THEN None
           ELSE IF f.t = "raise" THEN None ELSE f

(***************************************************************************)
(* normalize_period                                                        *)
(***************************************************************************)

NoMatch == << >>

\* the length of the run of whitespace of s that starts at position i
RECURSIVE Spaces(_, _)
Spaces(s, i) == IF i <= Len(s) /\ IsSpace(s[i]) THEN 1 + Spaces(s, i + 1) ELSE 0

\* re.match(r"^(\d{4})\s*[Mm]\s*(\d{1,2})$", s): << group 1, group 2 >> or NoMatch
MatchYM(s) ==
  IF Len(s) >= 4 /\ AllDigits(SubSeq(s, 1, 4))
  THEN LET i == 5 + Spaces(s, 5)
           j == i + 1 + Spaces(s, i + 1)
           g2 == SubSeq(s, j, Len(s))
       IN  IF /\ i <= Len(s) /\ s[i] \in {"M", "m"}
              /\ Len(g2) \in {1, 2} /\ AllDigits(g2)
           THEN << SubSeq(s, 1, 4), g2 >>
           ELSE NoMatch
  ELSE NoMatch

\* re.match(r"^(\d{1,2})[/-](\d{4})$", s)
MatchMonthYear(s) ==
  LET n == Len(s) - 5
  IN  IF /\ n \in {1, 2}
         /\ AllDigits(SubSeq(s, 1, n))
         /\ s[n + 1] \in {"/", "-"}
         /\ AllDigits(SubSeq(s, n + 2, Len(s)))
      THEN << SubSeq(s, 1, n), SubSeq(s, n + 2, Len(s)) >>
      ELSE NoMatch

\* re.match(r"^(\d{4})[/-](\d{1,2})$", s)
MatchYearMonth(s) ==
  LET n == Len(s) - 5
  IN  IF /\ n \in {1, 2}
         /\ AllDigits(SubSeq(s, 1, 4))
         /\ s[5] \in {"/", "-"}
         /\ AllDigits(SubSeq(s, 6, Len(s)))
      THEN << SubSeq(s, 1, 4), SubSeq(s, 6, Len(s)) >>
      ELSE NoMatch

\* re.match(r"^(\d{4})-(\d{2})-(\d{2})$", s)
MatchIsoDate(s) ==
  IF /\ Len(s) = 10
     /\ AllDigits(SubSeq(s, 1, 4)) /\ s[5] = "-"
     /\ AllDigits(SubSeq(s, 6, 7)) /\ s[8] = "-"
     /\ AllDigits(SubSeq(s, 9, 10))
  THEN << SubSeq(s, 1, 4), SubSeq(s, 6, 7), SubSeq(s, 9, 10) >>
  ELSE NoMatch

\* dt.strftime("%Y-%m")
StrftimeYm(y, m) == Fmt04d(y) \o << "-" >> \o Fmt02d(m)

\* repr of a finite float: the integer part, a point, the decimals
FloatToStr(x) ==
  LET a == IF x.m < 0 THEN 0 - x.m ELSE x.m
      ip == NatToStr(a \div Pow10(x.d))
      fp == IF x.d = 0 THEN << "0" >> ELSE ZeroPad(NatToStr(a % Pow10(x.d)), x.d)
  IN  (IF x.m < 0 THEN << "-" >> ELSE << >>) \o ip \o << "." >> \o fp

\* str(p)
PyStr(p) ==
  CASE p.t = "str" -> p.s
    [] p.t = "null" -> << "N", "o", "n", "e" >>
    [] p.t = "int" -> IntToStr(IntVal(p))
    [] p.t = "float" /\ p.k = "nan" -> << "n", "a", "n" >>
    [] p.t = "float" /\ p.k = "inf" ->
         (IF p.m < 0 THEN << "-" >> ELSE << >>) \o << "i", "n", "f" >>
    [] p.t = "float" /\ p.k = "fin" -> FloatToStr(p)

\* What pandas.to_datetime(s, errors="raise", dayfirst=True) followed by
\* strftime does is the library's business: pd is the outcome of that call,
\* PdError (an exception) or the Timestamp it returned.
PdError == [t |-> "raise", exc |-> "ParserError"]

normalize_period(p, pd) ==
  IF p.t = "ts" THEN StrftimeYm(p.y, p.m)
  ELSE
    LET s == Strip(PyStr(p))
        m1 == MatchYM(s)
        m2 == MatchMonthYear(s)
        m3 == MatchYearMonth(s)
        m4 == MatchIsoDate(s)
    IN  IF m1 # NoMatch
          THEN Fmt04d(DigitsToInt(m1[1])) \o << "-" >> \o Fmt02d(DigitsToInt(m1[2]))
        ELSE IF m2 # NoMatch
          THEN Fmt04d(DigitsToInt(m2[2])) \o << "-" >> \o Fmt02d(DigitsToInt(m2[1]))
        ELSE IF m3 # NoMatch
          THEN Fmt04d(DigitsToInt(m3[1])) \o << "-" >> \o Fmt02d(DigitsToInt(m3[2]))
        ELSE IF m4 # NoMatch
          THEN m4[1] \o << "-" >> \o m4[2]
        ELSE IF pd.t = "ts" THEN StrftimeYm(pd.y, pd.m)
        ELSE s

(***************************************************************************)
(* epoch milliseconds                                                      *)
(***************************************************************************)

\* isinstance(per, (int, float)) and per > 10_000_000: the threshold, in
\* thousands (an int is kept as q * 1000 + r)
EpochThreshold == 10000

IsEpoch(per) ==
  \/ per.t = "hugeint"
  \/ per.t = "int" /\ (per.q > EpochThreshold \/ (per.q = EpochThreshold /\ per.r > 0))
  \/ per.t = "float" /\ per.k = "inf" /\ per.m > 0
  \/ per.t = "float" /\ per.k = "fin" /\ per.m > EpochThreshold * 1000 * Pow10(per.d)

\* the civil (year, month) of day number z, days counted from 1970-01-01
CivilFromDays(z0) ==
  LET z == z0 + 719468
      era == z \div 146097
      doe == z - era * 146097
      yoe == (doe - doe \div 1460 + doe \div 36524 - doe \div 146096) \div 365
      doy == doe - (365 * yoe + yoe \div 4 - yoe \div 100)
      mp == (5 * doy + 2) \div 153
      m == IF mp < 10 THEN mp + 3 ELSE mp - 9
      y == yoe + era * 400 + (IF m <= 2 THEN 1 ELSE 0)
  IN  << y, m >>

\* mutant: local time of a zone one hour east of UTC, as fromtimestamp gives
EpochToYmLocal(per) ==
  IF per.t = "hugeint" \/ (per.t = "float" /\ per.k = "inf") THEN Raise("OverflowError")
  ELSE LET secs == IF per.t = "int" THEN per.q ELSE per.m \div (1000 * Pow10(per.d))
           ym == CivilFromDays((secs + 3600) \div 86400)
       IN  Str(StrftimeYm(ym[1], ym[2]))

\* datetime.utcfromtimestamp(float(per) / 1000.0).strftime("%Y-%m")
EpochToYm(per) ==
  IF per.t = "hugeint" \/ (per.t = "float" /\ per.k = "inf") THEN Raise("OverflowError")
  ELSE LET secs == IF per.t = "int" THEN per.q ELSE per.m \div (1000 * Pow10(per.d))
           ym == CivilFromDays(secs \div 86400)
       IN  Str(StrftimeYm(ym[1], ym[2]))

(***************************************************************************)
(* read_json                                                               *)
(***************************************************************************)

\* decoded JSON content
List(items) == [t |-> "list", items |-> items]

Dict(d) == [t |-> "dict", d |-> d]

\* the file docs/data/<id>.json: absent, not decodable, or decoded content
Missing == [t |-> "missing"]

Malformed == [t |-> "malformed"]

\* what read_json returns: None (warn: a [WARN] line was printed) or the list out
NoDataset(warn) == [t |-> "none", warn |-> warn]

Dataset(out) == [t |-> "dataset", out |-> out]

Obs(per, val) == [period |-> per, value |-> val]

\* the period of one record: the epoch branch or normalize_period
\* (lines 93-96 and 118-121); a string value, or Raise
PeriodOf(per, pd) ==
  IF IsEpoch(per) THEN EpochToYm(per) ELSE Str(normalize_period(per, pd))

PeriodKeysFlat == << "period", "Periodo", "Fecha" >>

ValueKeysFlat == << "value", "Valor" >>

PeriodKeysData == << "Fecha", "Periodo", "period" >>

ValueKeysData == << "Valor", "value" >>

\* d.get(k1) or d.get(k2) or ... for the keys ks in order
RECURSIVE GetFirst(_, _)
GetFirst(d, ks) ==
  IF Len(ks) = 1 THEN Get(d, ks[1]) ELSE Or(Get(d, ks[1]), GetFirst(d, Tail(ks)))

\* the body of the two normalizing loops (lines 89-99 and 115-124) from
\* element i on, out being the list built so far: Dataset(out), or Raise
RECURSIVE NormalizeFrom(_, _, _, _, _, _)
NormalizeFrom(seq, i, out, pkeys, vkeys, pd) ==
  IF i > Len(seq) THEN Dataset(out)
  ELSE IF seq[i].t # "dict" THEN Raise("AttributeError")
  ELSE LET d == seq[i].d
           per == PeriodOf(GetFirst(d, pkeys), pd)
           val == IF per.t = "raise" THEN per ELSE to_float(GetFirst(d, vkeys))
       IN  IF per.t = "raise" THEN per
           ELSE IF val.t = "raise" THEN val
           ELSE NormalizeFrom(seq, i + 1,
                  IF Truthy(per) /\ val # None THEN Append(out, Obs(per.s, val)) ELSE out,
                  pkeys, vkeys, pd)

\* list.sort(key=lambda x: x["period"]): stable, ascending
\* mutant: an observation goes before those of its own period
RECURSIVE InsertSortedUnstable(_, _)
InsertSortedUnstable(sorted, o) ==
  IF sorted = << >> THEN << o >>
  ELSE IF ~StrLess(sorted[Len(sorted)].period, o.period)
       THEN Append(InsertSortedUnstable(SubSeq(sorted, 1, Len(sorted) - 1), o),
                   sorted[Len(sorted)])
       ELSE Append(sorted, o)

RECURSIVE InsertSorted(_, _)
InsertSorted(sorted, o) ==
  IF sorted = << >> THEN << o >>
  ELSE IF StrLess(o.period, sorted[Len(sorted)].period)
       THEN Append(InsertSorted(SubSeq(sorted, 1, Len(sorted) - 1), o), sorted[Len(sorted)])
       ELSE Append(sorted, o)

RECURSIVE SortByPeriod(_)
SortByPeriod(out) ==
  IF out = << >> THEN << >>
  ELSE InsertSorted(SortByPeriod(SubSeq(out, 1, Len(out) - 1)), out[Len(out)])

\* for it in seq: the elements that iterating the value found under "Data"
\* gives (a str gives its characters, a dict its keys, of which the loop
\* reaches only the first), or Raise for a value that is not iterable
IterData(seq) ==
  CASE seq.t = "list" -> seq
    [] seq.t = "str" -> List([i \in 1..Len(seq.s) |-> Str(<< seq.s[i] >>)])
    [] seq.t = "dict" ->
         List(IF DOMAIN seq.d = {} THEN << >> ELSE << Str(<< "D" >>) >>)
    [] OTHER -> Raise("TypeError")

\* out.sort(key=lambda x: x["period"]); return out (lines 100-101, 125-126)
SortAndReturn(r) == IF r.t = "raise" THEN r ELSE Dataset(SortByPeriod(r.out))

read_json(f, pd) ==
  IF f.t = "missing" THEN NoDataset(FALSE)
  ELSE IF f.t = "malformed" THEN NoDataset(TRUE)
  ELSE
    LET data == f
        isList == data.t = "list"
        first == data.items[1]
    IN  IF isList /\ Len(data.items) > 0 /\ first.t = "dict"
           /\ ~Truthy(Get(first.d, "Data"))
        THEN SortAndReturn(
               NormalizeFrom(data.items, 1, << >>, PeriodKeysFlat, ValueKeysFlat, pd))
        ELSE
          LET caseB == data.t = "dict" /\ "Data" \in DOMAIN data.d
                         /\ data.d["Data"].t = "list"
              caseC == isList /\ Len(data.items) = 1 /\ first.t = "dict"
                         /\ "Data" \in DOMAIN first.d
              seq == IF caseB THEN data.d["Data"] ELSE first.d["Data"]
              it == IterData(seq)
          IN  IF ~caseB /\ ~caseC THEN NoDataset(TRUE)
              ELSE IF it.t = "raise" THEN it
              ELSE SortAndReturn(
                     NormalizeFrom(it.items, 1, << >>, PeriodKeysData, ValueKeysData, pd))

(***************************************************************************)
(* pct_change and the card of one indicator                                *)
(***************************************************************************)

RECURSIVE Gcd(_, _)
Gcd(a, b) == IF b = 0 THEN a ELSE Gcd(b, a % b)

Abs(n) == IF n < 0 THEN 0 - n ELSE n

\* the finite float num / den (den # 0), in lowest terms with den > 0
Ratio(num, den) ==
  LET g == Gcd(Abs(num), Abs(den))
      sg == IF den < 0 THEN -1 ELSE 1
  IN  [t |-> "float", k |-> "ratio", m |-> sg * (num \div g), d |-> Abs(den) \div g]

Num(x) == x.m

Den(x) == IF x.k = "fin" THEN Pow10(x.d) ELSE x.d

IsInf(x) == x.t = "float" /\ x.k = "inf"

Sign(n) == IF n < 0 THEN -1 ELSE 1

\* x == 0
IsZero(x) == x.t = "float" /\ x.k \in {"fin", "ratio"} /\ x.m = 0

\* a - b in IEEE arithmetic
FSub(a, b) ==
  IF IsNaN(a) \/ IsNaN(b) THEN NaN
  ELSE IF IsInf(a) THEN (IF IsInf(b) /\ b.m = a.m THEN NaN ELSE a)
  ELSE IF IsInf(b) THEN Inf(0 - b.m)
  ELSE Ratio(Num(a) * Den(b) - Num(b) * Den(a), Den(a) * Den(b))

\* a / b for Python floats: IEEE arithmetic, and ZeroDivisionError for b == 0
FDiv(a, b) ==
  IF IsZero(b) THEN Raise("ZeroDivisionError")
  ELSE IF IsNaN(a) \/ IsNaN(b) THEN NaN
  ELSE IF IsInf(a) THEN (IF IsInf(b) THEN NaN ELSE Inf(a.m * Sign(Num(b))))
  ELSE IF IsInf(b) THEN Ratio(0, 1)
  ELSE Ratio(Num(a) * Den(b), Den(a) * Num(b))

\* a * b in IEEE arithmetic, b finite and positive
FMul(a, b) ==
  IF a.t = "raise" \/ IsNaN(a) \/ IsInf(a) THEN a
  ELSE Ratio(Num(a) * Num(b), Den(a) * Den(b))

\* mutant: no check of b == 0
pct_change_unguarded(a, b) ==
  IF b = None \/ a = None THEN None
  ELSE FMul(FDiv(FSub(a, b), b), Fin(100, 0))

pct_change(a, b) ==
  IF b = None \/ IsZero(b) \/ a = None THEN None
  ELSE FMul(FDiv(FSub(a, b), b), Fin(100, 0))

\* what main() does with the dataset of one indicator (lines 199-214): no
\* card (why says which [WARN] line), or the arguments of draw_card
NoCard(why) == [t |-> "nocard", why |-> why]

Card(period, value, delta) ==
  [t |-> "card", period |-> period, value |-> value, delta |-> delta]

CardOf(data) ==
  IF data.t # "dataset" \/ data.out = << >> THEN NoCard("no data")
  ELSE LET n == Len(data.out)
           last == data.out[n]
           prev == IF n >= 2 THEN data.out[n - 1] ELSE None
           last_val == to_float(last.value)
           prev_val == IF prev # None THEN to_float(prev.value) ELSE None
       IN  IF last_val = None THEN NoCard("last value not numeric")
           ELSE Card(last.period, last_val, pct_change(last_val, prev_val))

(***************************************************************************)
(* Inputs of the model                                                     *)
(***************************************************************************)

MaxStrLen == 3

MaxMonthField == 13

MaxRecs == 2

MaxSortRecs == 3

MaxObs == 3

MaxIds == 2

Years == {1970, 2000, 2023, 2024, 2037}

\* the strings of length 1..n over the characters cs
RECURSIVE StringsUpTo(_, _)
StringsUpTo(cs, n) ==
  IF n = 0 THEN {}
  ELSE LET shorter == StringsUpTo(cs, n - 1)
       IN  {<< c >> : c \in cs} \cup shorter
             \cup {Append(w, c) : w \in {x \in shorter : Len(x) = n - 1}, c \in cs}

ValueChars == {"1", "0", ".", ",", "-", "n", "a", " "}

ValueStrings ==
  StringsUpTo(ValueChars, MaxStrLen)
    \cup { << >>,
           << "1", ".", "2", "3", "4", ",", "5", "6" >>,
           << "N", "a", "N" >>, << "N", "A" >>, << "N", "o", "n", "e" >>,
           << "n", "o", "n", "e" >>, << "-", "n", "a", "n" >>,
           << "i", "n", "f" >>, << "a", "b", "e" >> }

ValueInputs ==
  {None, HugeInt, NaN, Inf(1), Inf(-1), Fin(0, 0), Fin(125, 1), Fin(-3, 0)}
    \cup {Small(n) : n \in {0, 1, 42, 100, 110}}
    \cup {Str(w) : w \in ValueStrings}

\* the supported string encodings of month field m of year y
EncYM(y, m) == Fmt04d(y) \o << "M" >> \o Fmt02d(m)

EncMonthYear(y, m) == Fmt02d(m) \o << "/" >> \o Fmt04d(y)

EncYearMonth(y, m) == Fmt04d(y) \o << "/" >> \o Fmt02d(m)

EncIsoDate(y, m, d) == Fmt04d(y) \o << "-" >> \o Fmt02d(m) \o << "-" >> \o Fmt02d(d)

StringEncodings(y, m) ==
  { EncYM(y, m), EncMonthYear(y, m), EncYearMonth(y, m), EncIsoDate(y, m, 15),
    Fmt04d(y) \o << "m" >> \o NatToStr(m),
    << " " >> \o Fmt04d(y) \o << " ", "M", " " >> \o Fmt02d(m) \o << " " >>,
    NatToStr(m) \o << "-" >> \o Fmt04d(y),
    Fmt04d(y) \o << "-" >> \o NatToStr(m) }

\* the day number of the civil date y-m-d, days counted from 1970-01-01
DaysFromCivil(y0, m, d) ==
  LET y == IF m <= 2 THEN y0 - 1 ELSE y0
      era == y \div 400
      yoe == y - era * 400
      doy == (153 * (IF m > 2 THEN m - 3 ELSE m + 9) + 2) \div 5 + d - 1
      doe == yoe * 365 + yoe \div 4 - yoe \div 100 + doy
  IN  era * 146097 + doe - 719468

IsLeap(y) == (y % 4 = 0 /\ y % 100 # 0) \/ y % 400 = 0

DaysInMonth(y, m) ==
  IF m = 2 THEN (IF IsLeap(y) THEN 29 ELSE 28)
  ELSE IF m \in {4, 6, 9, 11} THEN 30 ELSE 31

\* epoch milliseconds of y-m-d, second sec of the day, millisecond ms
EpochMs(y, m, d, sec, ms) == PyInt(DaysFromCivil(y, m, d) * 86400 + sec, ms)

\* epoch-millisecond numbers falling in month m of year y: its first and last
\* millisecond, and noon of the 15th
EpochEncodings(y, m) ==
  { EpochMs(y, m, 1, 0, 0), EpochMs(y, m, 15, 43200, 0),
    EpochMs(y, m, DaysInMonth(y, m), 86399, 999) }

PeriodInputs ==
  {Str(w) : w \in UNION {StringEncodings(y, m) : y \in Years, m \in 0..MaxMonthField}}
    \cup UNION {EpochEncodings(y, m) : y \in Years, m \in 1..12}

OtherPeriods ==
  { None, HugeInt, NaN, Small(0), Small(2024), Small(5000000), PyInt(10000, 0),
    PyInt(10000, 1), Str(<< >>), Str(<< "a", "b", "e" >>),
    Str(<< " ", "a", "b", " " >>), Str(<< "2", "0", "2", "4", "Q", "1" >>),
    Str(<< "2", "0", "2", "4" >>) }

\* the outcomes of pandas.to_datetime in the model
PdOutcomes == {PdError, Timestamp(2024, 1)}

Abe == << "a", "b", "e" >>

\* the records the JSON files of the model are made of
Records ==
  { Dict([period |-> Str(EncYM(2024, 2)), value |-> Small(110)]),
    Dict([Periodo |-> Str(EncMonthYear(2024, 1)),
          Valor |-> Str(<< "1", ".", "2", "3", "4", ",", "5", "6" >>)]),
    Dict([Fecha |-> EpochMs(2024, 3, 15, 43200, 0), Valor |-> Small(100)]),
    Dict([period |-> Str(EncYM(2024, 1)), value |-> Small(0)]),
    Dict([value |-> Small(42)]),
    Dict([period |-> Str(EncYM(2024, 2)), value |-> None]),
    Dict([period |-> Str(EncYM(2024, 1)), Fecha |-> Str(EncYM(2024, 3)),
          value |-> Small(5)]),
    Dict([period |-> Str(EncYearMonth(2023, 12)), value |-> Small(1),
          Valor |-> Small(2)]),
    Dict([period |-> Str(EncIsoDate(2024, 2, 15)), Valor |-> Str(Abe)]),
    Dict([period |-> Str(EncYM(2024, 2)), value |-> Fin(125, 1)]),
    Dict([Fecha |-> Str(Abe), Valor |-> Small(7)]),
    Dict([period |-> Str(EncYM(2024, 1)), value |-> HugeInt]),
    Dict([Periodo |-> Str(<< >>), Valor |-> Small(3)]),
    Dict([period |-> Str(EncYM(2023, 12)), value |-> Str(<< "-", "n", "a", "n" >>)]) }

\* the sequences of length 0..n over the set S
RECURSIVE SeqsUpTo(_, _)
SeqsUpTo(S, n) ==
  IF n = 0 THEN {<< >>}
  ELSE LET shorter == SeqsUpTo(S, n - 1)
       IN  shorter \cup {Append(w, x) : w \in {v \in shorter : Len(v) = n - 1}, x \in S}

\* records of three periods, two of them of the same period
SortRecords ==
  { Dict([period |-> Str(EncYM(2024, 2)), value |-> Small(110)]),
    Dict([period |-> Str(EncYM(2024, 2)), value |-> Fin(125, 1)]),
    Dict([Periodo |-> Str(EncMonthYear(2024, 1)),
          Valor |-> Str(<< "1", ".", "2", "3", "4", ",", "5", "6" >>)]),
    Dict([Fecha |-> EpochMs(2024, 3, 15, 43200, 0), Valor |-> Small(100)]) }

\* the record sequences read_json is called on
RecordSeqs == SeqsUpTo(Records, MaxRecs) \cup SeqsUpTo(SortRecords, MaxSortRecs)

\* the three recognized shapes of a file holding the records R
FlatFile(R) == List(R)

DataFile(R) == Dict([Data |-> List(R)])

WrappedFile(R) == List(<< Dict([Data |-> List(R)]) >>)

ARecord == Dict([period |-> Str(EncYM(2024, 1)), value |-> Small(1)])

\* files of no recognized shape, missing or not decodable
OtherFiles ==
  { Missing, Malformed, None, Small(5), Str(Abe), List(<< >>),
    List(<< Small(1), Small(2) >>), List(<< Small(1) >>),
    List(<< DataFile(<< ARecord >>), DataFile(<< ARecord >>) >>),
    List(<< DataFile(<< >>), DataFile(<< >>) >>),
    Dict([Data |-> Small(5)]), Dict([Data |-> None]), Dict([Data |-> Str(Abe)]),
    Dict([Data |-> List(<< Small(1) >>)]),
    Dict([Data |-> List(<< ARecord, Small(1) >>)]),
    Dict([Datos |-> List(<< ARecord >>)]),
    List(<< Dict([Data |-> Small(5)]) >>), List(<< Dict([Data |-> Str(Abe)]) >>),
    List(<< Dict([Data |-> None]) >>),
    List(<< Dict([Data |-> DataFile(<< ARecord >>)]) >>),
    List(<< ARecord, Small(5) >>), List(<< ARecord, List(<< >>) >>) }

\* the values of the observations of a normalized dataset
ObsValues == {Fin(110, 0), Fin(100, 0), Fin(0, 0), Fin(-25, 1), NaN, Inf(1)}

\* the datasets of n observations: ascending periods, values of ObsValues
DatasetsOfLen(n) ==
  {[i \in 1..n |-> Obs(StrftimeYm(2024, i), v[i])] : v \in [1..n -> ObsValues]}

Datasets == UNION {DatasetsOfLen(n) : n \in 0..MaxObs}

(***************************************************************************)
(* ine_api.py: _parse_period                                               *)
(***************************************************************************)

MaxPeriodLen == 3

\* s.split(c): the parts of s between the occurrences of c
RECURSIVE Split(_, _)
Split(s, c) ==
  IF \A i \in 1..Len(s) : s[i] # c THEN << s >>
  ELSE LET i == CHOOSE k \in 1..Len(s) : s[k] = c /\ \A l \in 1..(k - 1) : s[l] # c
       IN  << SubSeq(s, 1, i - 1) >> \o Split(SubSeq(s, i + 1, Len(s)), c)

\* c in s
Contains(s, c) == \E i \in 1..Len(s) : s[i] = c

RECURSIVE DropZeros(_)
DropZeros(s) == IF s # << >> /\ s[1] = "0" THEN DropZeros(Tail(s)) ELSE s

\* an int of ten digits or more: all that matters of it is whether it fits
\* the C int that datetime() takes
BigInt(fits) == [t |-> "bigint", fits |-> fits]

CIntMax == << "2", "1", "4", "7", "4", "8", "3", "6", "4", "7" >>

\* int(s): blanks stripped, a sign, decimal digits; ValueError otherwise
IntOfStr(s0) ==
  LET s == Strip(s0)
      signed == s # << >> /\ s[1] \in {"+", "-"}
      body == IF signed THEN Tail(s) ELSE s
      ds == DropZeros(body)
  IN  IF body = << >> \/ ~AllDigits(body) THEN Raise("ValueError")
      ELSE IF Len(ds) <= 9
        THEN Small((IF signed /\ s[1] = "-" THEN -1 ELSE 1) * DigitsToInt(ds))
      ELSE BigInt(Len(ds) = 10 /\ ~StrLess(CIntMax, ds))

Datetime(y, m, d) == [t |-> "datetime", year |-> y, month |-> m, day |-> d]

\* datetime(year, month, 1) of two ints: OverflowError for an argument that
\* is no C int, ValueError for a year outside 1..9999 or a month outside 1..12
datetime(year, month) ==
  IF (year.t = "bigint" /\ ~year.fits) \/ (month.t = "bigint" /\ ~month.fits)
    THEN Raise("OverflowError")
  ELSE IF year.t = "bigint" \/ month.t = "bigint" THEN Raise("ValueError")
  ELSE IF IntVal(year) \notin 1..9999 \/ IntVal(month) \notin 1..12
    THEN Raise("ValueError")
  ELSE Datetime(IntVal(year), IntVal(month), 1)

\* (int(quarter) - 1) * 3 + 1, line 208
QuarterMonth(q) ==
  IF q.t = "bigint" THEN BigInt(FALSE) ELSE Small((IntVal(q) - 1) * 3 + 1)

\* _parse_period (lines 192-215)
parse_period(value) ==
  LET s == PyStr(value)
  IN  IF Contains(s, "M")
        THEN LET parts == Split(s, "M")
             IN  IF Len(parts) # 2 THEN Raise("ValueError")
                 ELSE LET year == IntOfStr(parts[1])
                          month == IntOfStr(parts[2])
                      IN  IF year.t = "raise" THEN year
                          ELSE IF month.t = "raise" THEN month
                          ELSE datetime(year, month)
      ELSE IF Contains(s, "T")
        THEN LET parts == Split(s, "T")
             IN  IF Len(parts) # 2 THEN Raise("ValueError")
                 ELSE LET year == parts[1]
                          quarter == IntOfStr(parts[2])
                      IN  IF quarter.t = "raise" THEN quarter
                          ELSE IF IntOfStr(year).t = "raise" THEN IntOfStr(year)
                          ELSE datetime(IntOfStr(year), QuarterMonth(quarter))
      ELSE LET year == IntOfStr(s)
               date == IF year.t = "raise" THEN year ELSE datetime(year, Small(1))
           IN  IF date.t = "raise" /\ date.exc = "ValueError" THEN None ELSE date

\* "YYYYTq"
EncT(y, q) == Fmt04d(y) \o << "T" >> \o NatToStr(q)

\* the values of a "Fecha" or "Periodo" key of an observation
IneChars == {"0", "1", "M", "T", "x"}

InePeriods ==
  { None, Small(2024), Fin(2024, 0), Str(<< >>), Str(CIntMax),
    Str(<< "2", "1", "4", "7", "4", "8", "3", "6", "4", "8" >>),
    Str(<< " ", "2", "0", "2", "4", " " >>), Str(<< "-", "5" >>) } \cup
  { Str(EncYM(y, m)) : y \in Years, m \in 0..MaxMonthField } \cup
  { Str(EncT(y, q)) : y \in Years, q \in 0..5 } \cup
  { Str(Fmt04d(y)) : y \in Years \cup {0} } \cup
  { Str(s) : s \in StringsUpTo(IneChars, MaxPeriodLen) }

(***************************************************************************)
(* The functions, called on the inputs of the model                        *)
(***************************************************************************)

VARIABLES
  call,       \* the last call made: its function and arguments
  ret,        \* what that call returned
  pc,         \* where main() is
  excel,      \* the table ids ids_from_excel finds in the Excel file
  ids,        \* main: the (table id) list being processed
  idx,        \* main: the index in ids of the next indicator
  generadas,  \* main: the number of cards generated
  files,      \* docs/data: table id -> file
  cards,      \* docs/cards: the table ids with a PNG, and the card drawn
  index,      \* docs/index.html: the items of the page, or NoIndex
  err,        \* the exception that ended main(), or None
  datas,      \* table id -> the outcome of line 198 for it
  drawn,      \* history: the table ids whose card this run of main() drew
  runs,       \* history: the number of runs of main() started
  lastRun,    \* history: the inputs and outputs when the previous run ended
  rows,       \* update_data: the rows of the Excel file
  args,       \* update_data: the command line arguments
  rowIdx,     \* update_data main: the index in rows of the next row
  upc,        \* update_data main: where it is
  saved,      \* data/processed: the files written, each with the row that wrote it
  stdout      \* update_data: the lines printed, each with the row that printed it

vars == << call, ret, pc, excel, ids, idx, generadas, files, cards, index, err,
           datas, drawn, runs, lastRun, rows, args, rowIdx, upc, saved, stdout >>

updVars == << rows, args, rowIdx, upc, saved, stdout >>

cardsVars == << pc, excel, ids, idx, generadas, files, cards, index, err,
               datas, drawn, runs, lastRun >>

runVars == << datas, drawn, runs, lastRun >>

mainVars == << pc, excel, ids, idx, generadas, files, cards, index, err,
               datas, drawn, runs, lastRun, updVars >>

NoUpdate ==
  /\ rows = << >>
  /\ args = [dry_run |-> FALSE]
  /\ rowIdx = 1
  /\ upc = "idle"
  /\ saved = {}
  /\ stdout = << >>

NoCall == [fn |-> "none"]

NoIndex == [t |-> "noindex"]

InitCalls ==
  /\ call = NoCall
  /\ ret = None
  /\ pc = "idle"
  /\ excel = << >>
  /\ ids = << >>
  /\ idx = 1
  /\ generadas = 0
  /\ files = [tid \in {} |-> Missing]
  /\ cards = [tid \in {} |-> None]
  /\ index = NoIndex
  /\ err = None
  /\ datas = [tid \in {} |-> None]
  /\ drawn = {}
  /\ runs = 0
  /\ lastRun = None
  /\ NoUpdate

CallToFloat ==
  \E x \in ValueInputs :
    /\ call = NoCall
    /\ call' = [fn |-> "to_float", arg |-> x]
    /\ ret' = to_float(x)
    /\ UNCHANGED mainVars

\* normalize_period on a value read_json passes to it (a number above the
\* epoch threshold takes the other branch of line 93)
CallNormalizePeriod ==
  \E p \in PeriodInputs \cup OtherPeriods \cup {Timestamp(2024, 1), Timestamp(1999, 12)},
     pd \in PdOutcomes :
    /\ call = NoCall
    /\ ~IsEpoch(p)
    /\ call' = [fn |-> "normalize_period", arg |-> p, pd |-> pd]
    /\ ret' = Str(normalize_period(p, pd))
    /\ UNCHANGED mainVars

\* the period normalization of read_json (lines 93-96, 118-121) on one value
CallPeriodOf ==
  \E p \in PeriodInputs \cup OtherPeriods, pd \in PdOutcomes :
    /\ call = NoCall
    /\ call' = [fn |-> "period_of", arg |-> p, pd |-> pd]
    /\ ret' = PeriodOf(p, pd)
    /\ UNCHANGED mainVars

\* read_json on the three recognized shapes of a file holding the records R
CallReadJson ==
  \E R \in RecordSeqs, pd \in PdOutcomes :
    /\ call = NoCall
    /\ call' = [fn |-> "read_json", recs |-> R, pd |-> pd]
    /\ ret' = [flat |-> read_json(FlatFile(R), pd),
               data |-> read_json(DataFile(R), pd),
               wrapped |-> read_json(WrappedFile(R), pd)]
    /\ UNCHANGED mainVars

CallReadJsonOther ==
  \E f \in OtherFiles, pd \in PdOutcomes :
    /\ call = NoCall
    /\ call' = [fn |-> "read_json_other", file |-> f, pd |-> pd]
    /\ ret' = read_json(f, pd)
    /\ UNCHANGED mainVars

\* lines 199-214 of main() on one dataset
CallCardOf ==
  \E out \in Datasets :
    /\ call = NoCall
    /\ call' = [fn |-> "card_of", data |-> out]
    /\ ret' = CardOf(Dataset(out))
    /\ UNCHANGED mainVars

\* _parse_period on the value of a period key (json_to_dataframe, line 179)
CallParsePeriod ==
  \E v \in InePeriods :
    /\ call = NoCall
    /\ call' = [fn |-> "parse_period", arg |-> v]
    /\ ret' = parse_period(v)
    /\ UNCHANGED mainVars

NextCalls ==
  \/ CallToFloat
  \/ CallNormalizePeriod
  \/ CallPeriodOf
  \/ CallReadJson
  \/ CallReadJsonOther
  \/ CallCardOf
  \/ CallParsePeriod

SpecCalls == InitCalls /\ [][NextCalls]_vars

(***************************************************************************)
(* main()                                                                  *)
(***************************************************************************)

\* the table ids of the model, in the order sorted() gives their file names
TidOrder == << "10", "20", "30" >>

Tids == {TidOrder[i] : i \in 1..Len(TidOrder)}

\* the files docs/data/<id>.json of the model
MainFiles ==
  { Missing, Malformed, List(<< >>),
    FlatFile(<< Dict([period |-> Str(EncYM(2024, 1)), value |-> None]) >>),
    FlatFile(<< Dict([period |-> Str(EncYM(2024, 1)), value |-> Small(100)]),
                Dict([period |-> Str(EncYM(2024, 2)), value |-> Small(110)]) >>) }

NoRepeat(w) == \A i, j \in 1..Len(w) : w[i] = w[j] => i = j

\* fallback_ids_from_json: the ids of the files present, sorted
fallback_ids_from_json(fs) == SelectSeq(TidOrder, LAMBDA tid : fs[tid].t # "missing")

\* main() calls read_json_records (line 198), a name the module never binds:
\* evaluating it raises NameError
read_json_records(tid, fs) == Raise("NameError")

Init ==
  /\ call = NoCall
  /\ ret = None
  /\ pc = "start"
  /\ excel \in {w \in SeqsUpTo(Tids, MaxIds) : NoRepeat(w)}
  /\ files \in [Tids -> MainFiles]
  /\ ids = << >>
  /\ idx = 1
  /\ generadas = 0
  /\ cards = [tid \in Tids |-> None]
  /\ index = NoIndex
  /\ err = None
  /\ datas = [tid \in Tids |-> read_json_records(tid, files)]
  /\ drawn = {}
  /\ runs = 1
  /\ lastRun = None
  /\ NoUpdate

\* lines 192-196
Start ==
  /\ pc = "start"
  /\ ids' = IF excel # << >> THEN excel ELSE fallback_ids_from_json(files)
  /\ generadas' = 0
  /\ idx' = 1
  /\ pc' = "loop"
  /\ UNCHANGED << call, ret, excel, files, cards, index, err >>
  /\ UNCHANGED runVars
  /\ UNCHANGED updVars

\* one iteration of the loop of lines 197-214
Loop ==
  /\ pc = "loop"
  /\ idx <= Len(ids)
  /\ LET tid == ids[idx]
         data == read_json_records(tid, files)
         card == CardOf(data)
     IN  IF data.t = "raise"
         THEN /\ pc' = "crashed"
              /\ err' = data
              /\ UNCHANGED << idx, generadas, cards >>
         ELSE /\ idx' = idx + 1
              /\ cards' = IF card.t = "card" THEN [cards EXCEPT ![tid] = card] ELSE cards
              /\ generadas' = IF card.t = "card" THEN generadas + 1 ELSE generadas
              /\ UNCHANGED << pc, err >>
  /\ UNCHANGED << call, ret, excel, ids, files, index >>
  /\ UNCHANGED runVars
  /\ UNCHANGED updVars

\* lines 219-221: one item for every PNG of docs/cards, sorted by file name
IndexItems(dir) == SelectSeq(TidOrder, LAMBDA tid : dir[tid] # None)

\* the page opened for appending: the items are added to those it had
WriteIndexAppend(n, dir, old) ==
  IF n > 0
  THEN [t |-> "index",
        items |-> (IF old.t = "index" THEN old.items ELSE << >>) \o IndexItems(dir)]
  ELSE old

\* lines 216-246: with a card generated the page is written anew from the
\* items, otherwise docs/index.html is left as it is
WriteIndex(n, dir, old) ==
  IF n > 0 THEN [t |-> "index", items |-> IndexItems(dir)] ELSE old

\* lines 216-246
Index ==
  /\ pc = "loop"
  /\ idx > Len(ids)
  /\ index' = WriteIndex(generadas, cards, index)
  /\ pc' = "done"
  /\ UNCHANGED << call, ret, excel, ids, idx, generadas, files, cards, err >>
  /\ UNCHANGED runVars
  /\ UNCHANGED updVars

Next == Start \/ Loop \/ Index

Spec == Init /\ [][Next]_vars

(***************************************************************************)
(* main() run again and again.  Line 198 as written raises NameError, which *)
(* ends the run before anything is written; so that lines 199-246 act, the  *)
(* outcome of line 198 for a table is an input here: the NameError, or a    *)
(* value a reader of docs/data/<id>.json (read_json) binds to data.         *)
(***************************************************************************)

MaxRuns == 3

\* the values a reader binds to data at line 198: nothing read of a file that
\* is not there, otherwise a normalized dataset
DataOutcomes(f) ==
  IF f.t = "missing" THEN { NoDataset(TRUE) }
  ELSE { Dataset(<< >>),
         Dataset(<< Obs(StrftimeYm(2024, 1), NaN) >>),
         Dataset(<< Obs(StrftimeYm(2024, 1), Fin(100, 0)) >>),
         Dataset(<< Obs(StrftimeYm(2024, 1), Fin(100, 0)),
                    Obs(StrftimeYm(2024, 2), Fin(110, 0)) >>) }

\* the outcomes of line 198 for the tables: NameError for every one of them
\* (the code as written), or a value for each
RunDatas(fs) ==
  { [tid \in Tids |-> read_json_records(tid, fs)] } \cup
  { d \in [Tids -> UNION {DataOutcomes(fs[tid]) : tid \in Tids}] :
      \A tid \in Tids : d[tid] \in DataOutcomes(fs[tid]) }

\* docs/data of the repeated runs: 10.json and 20.json are there
RunFiles == [tid \in Tids |-> IF tid = "30" THEN Missing ELSE List(<< >>)]

\* the id lists of the Excel file
Excels == {w \in SeqsUpTo(Tids, MaxIds) : NoRepeat(w)}

InitRuns ==
  /\ call = NoCall
  /\ ret = None
  /\ pc = "start"
  /\ excel \in Excels
  /\ files = RunFiles
  /\ ids = << >>
  /\ idx = 1
  /\ generadas = 0
  /\ cards = [tid \in Tids |-> None]
  /\ index = NoIndex
  /\ err = None
  /\ datas \in RunDatas(RunFiles)
  /\ drawn = {}
  /\ runs = 1
  /\ lastRun = None
  /\ NoUpdate

\* lines 192-196
RunStart ==
  /\ pc = "start"
  /\ ids' = IF excel # << >> THEN excel ELSE fallback_ids_from_json(files)
  /\ generadas' = 0
  /\ idx' = 1
  /\ drawn' = {}
  /\ pc' = "loop"
  /\ UNCHANGED << call, ret, excel, files, cards, index, err, datas, runs, lastRun >>
  /\ UNCHANGED updVars

\* one iteration of the loop of lines 197-214: draw_card writes
\* docs/cards/<tid>.png anew (Image.new, img.save) from its arguments
RunLoop ==
  /\ pc = "loop"
  /\ idx <= Len(ids)
  /\ LET tid == ids[idx]
         data == datas[tid]
         card == CardOf(data)
     IN  IF data.t = "raise"
         THEN /\ pc' = "crashed"
              /\ err' = data
              /\ UNCHANGED << idx, generadas, cards, drawn >>
         ELSE /\ idx' = idx + 1
              /\ cards' = IF card.t = "card" THEN [cards EXCEPT ![tid] = card] ELSE cards
              /\ generadas' = IF card.t = "card" THEN generadas + 1 ELSE generadas
              /\ drawn' = IF card.t = "card" THEN drawn \cup {tid} ELSE drawn
              /\ UNCHANGED << pc, err >>
  /\ UNCHANGED << call, ret, excel, ids, files, index, datas, runs, lastRun >>
  /\ UNCHANGED updVars

\* lines 216-246
RunIndex ==
  /\ pc = "loop"
  /\ idx > Len(ids)
  /\ index' = WriteIndex(generadas, cards, index)
  /\ pc' = "done"
  /\ UNCHANGED << call, ret, excel, ids, idx, generadas, files, cards, err,
                  datas, drawn, runs, lastRun >>
  /\ UNCHANGED updVars

\* the script is run again (lines 248-249) once the run before has ended,
\* on the same Excel file or on one whose first row was taken away
Rerun ==
  /\ pc \in {"done", "crashed"}
  /\ runs < MaxRuns
  /\ \E e \in {excel} \cup (IF excel # << >> THEN {Tail(excel)} ELSE {}) :
       excel' = e
  /\ lastRun' = [excel |-> excel, datas |-> datas, cards |-> cards, index |-> index]
  /\ runs' = runs + 1
  /\ pc' = "start"
  /\ err' = None
  /\ UNCHANGED << call, ret, ids, idx, generadas, files, cards, index, datas, drawn >>
  /\ UNCHANGED updVars

NextRuns == RunStart \/ RunLoop \/ RunIndex \/ Rerun

SpecRuns == InitRuns /\ [][NextRuns]_vars

(***************************************************************************)
(* update_data.py                                                          *)
(***************************************************************************)

MaxRows == 2

\* re.search(r"[?&]t=(\d+)", s): the places where the pattern matches
TableIdAt(s) ==
  { i \in 1..Len(s) :
      /\ i + 3 <= Len(s)
      /\ s[i] \in {"?", "&"} /\ s[i + 1] = "t" /\ s[i + 2] = "="
      /\ s[i + 3] \in Digits }

\* the longest run of digits of s from place i on
RECURSIVE DigitRun(_, _)
DigitRun(s, i) ==
  IF i <= Len(s) /\ s[i] \in Digits THEN << s[i] >> \o DigitRun(s, i + 1) ELSE << >>

\* extract_table_id (lines 42-47): group 1 of the leftmost match, or None
extract_table_id(s) ==
  IF TableIdAt(s) = {} THEN None
  ELSE LET i == CHOOSE k \in TableIdAt(s) : \A l \in TableIdAt(s) : k <= l
       IN  Str(DigitRun(s, i + 3))

\* what becomes of a table: downloaded, processed and saved, or the step
\* that raises: get_table_data (INEAPIError, lines 78-82), json_to_dataframe
\* or filter_by_region (lines 83-88), df.to_csv (line 97), to_json (line 98).
\* The tip of lines 124-129 is an argument of the download and nothing else.
Fates == {"ok", "INEAPIError", "process", "to_csv", "to_json"}

\* the URL cells of the Excel file: empty cell (NaN), a number, texts
UrlCells ==
  { NaN, Small(5), Str(<< >>), Str(<< "t", "=", "1" >>),
    Str(<< "?", "t", "=" >>),
    Str(<< "?", "t", "=", "1", "2" >>),
    Str(<< "a", "&", "t", "=", "7", "&", "t", "=", "8" >>) }

HasTableId(url) == url.t = "str" /\ extract_table_id(url.s) # None

\* the rows: a fate matters only for a row with a table id
ExcelRows ==
  { [URL |-> u, fate |-> "ok"] : u \in {v \in UrlCells : ~HasTableId(v)} } \cup
  { [URL |-> u, fate |-> f] : u \in {v \in UrlCells : HasTableId(v)}, f \in Fates }

\* a printed line: its tag and the table id in it
Line(i, kind, id) == [row |-> i, kind |-> kind, id |-> id]

\* a file <id>.<ext> of data/processed
File(i, id, ext) == [row |-> i, id |-> id, ext |-> ext]

\* one iteration of the loop of lines 111-135 for row r, the i-th: the lines
\* it prints and the files it writes; every raise of lines 123-133 is caught
\* at line 134
RowStep(r, i, dry) ==
  LET url == r.URL
      table_id == IF url.t = "str" THEN extract_table_id(url.s) ELSE None
      error == Line(i, "ERROR", table_id)
  IN  IF url.t # "str" \/ ~Truthy(url)
        THEN [lines |-> << >>, files |-> {}]
      ELSE IF ~Truthy(table_id)
        THEN [lines |-> << Line(i, "WARN", None) >>, files |-> {}]
      ELSE IF dry
        THEN [lines |-> << Line(i, "DRY", table_id) >>, files |-> {}]
      ELSE CASE r.fate = "INEAPIError" ->
                  [lines |-> << Line(i, "ERROR download", table_id), error >>,
                   files |-> {}]
             [] r.fate = "process" -> [lines |-> << error >>, files |-> {}]
             [] r.fate = "to_csv" -> [lines |-> << error >>, files |-> {}]
             [] r.fate = "to_json" ->
                  [lines |-> << error >>, files |-> {File(i, table_id, "csv")}]
             [] OTHER ->
                  [lines |-> << Line(i, "INFO", table_id) >>,
                   files |-> {File(i, table_id, "csv"), File(i, table_id, "json")}]

InitUpdate ==
  /\ call = NoCall
  /\ ret = None
  /\ pc = "idle"
  /\ excel = << >>
  /\ ids = << >>
  /\ idx = 1
  /\ generadas = 0
  /\ files = [tid \in {} |-> Missing]
  /\ cards = [tid \in {} |-> None]
  /\ index = NoIndex
  /\ err = None
  /\ datas = [tid \in {} |-> None]
  /\ drawn = {}
  /\ runs = 0
  /\ lastRun = None
  /\ rows \in SeqsUpTo(ExcelRows, MaxRows)
  /\ args \in [dry_run : BOOLEAN]
  /\ rowIdx = 1
  /\ upc = "loop"
  /\ saved = {}
  /\ stdout = << >>

\* one iteration of the loop of lines 111-135
UpdateRow ==
  /\ upc = "loop"
  /\ rowIdx <= Len(rows)
  /\ LET step == RowStep(rows[rowIdx], rowIdx, args.dry_run)
     IN  /\ stdout' = stdout \o step.lines
         /\ saved' = saved \cup step.files
         /\ rowIdx' = rowIdx + 1
  /\ UNCHANGED << rows, args, upc, call, ret, cardsVars >>

\* the loop has gone through the rows: main() returns
UpdateReturn ==
  /\ upc = "loop"
  /\ rowIdx > Len(rows)
  /\ upc' = "done"
  /\ UNCHANGED << rows, args, rowIdx, saved, stdout, call, ret, cardsVars >>

NextUpdate == UpdateRow \/ UpdateReturn

SpecUpdate == InitUpdate /\ [][NextUpdate]_vars

(***************************************************************************)
(* Properties                                                              *)
(***************************************************************************)

\* the canonical "YYYY-MM" string of month m of year y
CanonicalMonth(y, m) == Fmt04d(y) \o << "-" >> \o Fmt02d(m)

\* s is "YYYY-MM" with MM a calendar month, 01..12
IsCanonical(s) ==
  /\ Len(s) = 7
  /\ AllDigits(SubSeq(s, 1, 4)) /\ s[5] = "-" /\ AllDigits(SubSeq(s, 6, 7))
  /\ DigitsToInt(SubSeq(s, 6, 7)) \in 1..12

\* the three results of a call of read_json on the three shapes
Results == {ret.flat, ret.data, ret.wrapped}

\* the values a record holds under the keys ks
FieldValues(rec, ks) == {rec.d[k] : k \in ks \cap DOMAIN rec.d}

PeriodKeys == {"period", "Periodo", "Fecha"}

ValueKeys == {"value", "Valor"}

\* C1: no per-indicator problem is fatal to main(): the run is never ended by
\* an exception, and when it has ended every indicator of the list was
\* processed and an indicator whose file is missing, malformed, of no
\* recognized shape or without observations has no card.
C1_NoErrorIsFatal ==
  /\ pc # "crashed"
  /\ err = None
  /\ pc = "done" =>
       /\ idx = Len(ids) + 1
       /\ \A i \in 1..Len(ids) :
            read_json(files[ids[i]], PdError) \in
                {NoDataset(TRUE), NoDataset(FALSE), Dataset(<< >>)}
              => cards[ids[i]] = None

\* C2: read_json returns the same observation sequence for the flat list R,
\* the object {"Data": R} and the one-element list [{"Data": R}], for every
\* sequence R of records (R not empty: the empty list is no recognized shape),
\* records that carry several period keys or value keys included.
C2_ShapesAgree ==
  call.fn = "read_json" /\ call.recs # << >> =>
    ret.flat = ret.data /\ ret.data = ret.wrapped

\* the record has a period field: one of the period keys, not null
HasPeriodField(rec) == \E v \in FieldValues(rec, PeriodKeys) : v # None

\* C3: a record whose value is absent or unparseable, or whose period is
\* missing, is excluded from what read_json returns: no observation has a null
\* value, none has the period "None", and there are no more observations than
\* records with a period field.
C3_UnusableDropped ==
  call.fn = "read_json" =>
    \A r \in Results :
      r.t = "dataset" =>
        /\ \A i \in 1..Len(r.out) :
             r.out[i].value # None /\ r.out[i].period # << "N", "o", "n", "e" >>
        /\ Len(r.out) <=
             Cardinality({i \in 1..Len(call.recs) : HasPeriodField(call.recs[i])})

\* a period in one of the supported encodings of a calendar month
UsablePeriod(v) ==
  \E y \in Years, m \in 1..12 :
    \/ v \in EpochEncodings(y, m)
    \/ v.t = "str" /\ v.s \in StringEncodings(y, m)

\* the string is digits grouped by "." with at most one "," before decimals
EuropeanNumber(s) ==
  /\ \A i \in 1..Len(s) : s[i] \in Digits \cup {".", ","}
  /\ Cardinality({i \in 1..Len(s) : s[i] = ","}) <= 1
  /\ \E i \in 1..Len(s) : s[i] \in Digits

\* a value that is numeric or parses to a number
UsableValue(v) ==
  \/ v.t = "int"
  \/ IsFinite(v)
  \/ v.t = "str" /\ EuropeanNumber(v.s)

UsableRecord(rec) ==
  /\ FieldValues(rec, PeriodKeys) # {}
  /\ \A v \in FieldValues(rec, PeriodKeys) : UsablePeriod(v)
  /\ FieldValues(rec, ValueKeys) # {}
  /\ \A v \in FieldValues(rec, ValueKeys) : UsableValue(v)

\* C4: only bad records are dropped: every record that has a usable period
\* and a value that is numeric (0 included) or parses to a number appears in
\* the dataset read_json returns, which so has at least as many observations
\* as there are such records.
C4_OnlyBadRecordsDropped ==
  call.fn = "read_json" =>
    \A r \in Results :
      r.t = "dataset" =>
        Len(r.out) >=
          Cardinality({i \in 1..Len(call.recs) : UsableRecord(call.recs[i])})

\* C5: for decoded content of none of the three recognized shapes read_json
\* prints a warning and returns no dataset; it does not raise.
C5_UnrecognizedShapeWarns ==
  call.fn = "read_json_other" /\ call.file.t \notin {"missing", "malformed"} =>
    ret = NoDataset(TRUE)

\* the four encodings of a month named by the spec
NamedEncodings(y, m) ==
  {EncYM(y, m), EncMonthYear(y, m), EncYearMonth(y, m), EncIsoDate(y, m, 15)}

\* C6 as stated: every supported encoding of a calendar month, an
\* epoch-milliseconds number falling in the month included, is normalized by
\* read_json's period normalization to the canonical "YYYY-MM" of the month.
C6_AllEncodingsAgree ==
  call.fn = "period_of" =>
    \A y \in Years, m \in 1..12 :
      (\/ call.arg \in EpochEncodings(y, m)
       \/ call.arg.t = "str" /\ call.arg.s \in NamedEncodings(y, m))
        => ret = Str(CanonicalMonth(y, m))

\* the int is greater than 10,000,000
AboveTenMillion(n) == n.q > 10000 \/ (n.q = 10000 /\ n.r > 0)

\* C6 as amended: the string encodings of a calendar month, and every
\* epoch-milliseconds number greater than 10,000,000 that falls in the month,
\* are normalized to the canonical "YYYY-MM" of the month.
C6_EncodingsAgree ==
  call.fn = "period_of" =>
    \A y \in Years, m \in 1..12 :
      (\/ call.arg \in EpochEncodings(y, m) /\ AboveTenMillion(call.arg)
       \/ call.arg.t = "str" /\ call.arg.s \in NamedEncodings(y, m))
        => ret = Str(CanonicalMonth(y, m))

\* C6 witness: the last millisecond of February 2024, an epoch number,
\* normalized to "2024-02"
C6_Witness ==
  /\ call.fn = "period_of"
  /\ call.arg = EpochMs(2024, 2, 29, 86399, 999)
  /\ ret = Str(<< "2", "0", "2", "4", "-", "0", "2" >>)

\* C7: normalize_period returns a canonical "YYYY-MM" string with a calendar
\* month 01..12, or its input unchanged (taken here up to str() and strip(),
\* which is weaker than the claim).
C7_CanonicalOrUnchanged ==
  call.fn = "normalize_period" =>
    /\ ret.t = "str"
    /\ \/ IsCanonical(ret.s)
       \/ call.arg.t # "ts" /\ ret.s \in {PyStr(call.arg), Strip(PyStr(call.arg))}

\* the digits of s, in order
DigitsOf(s) == SelectSeq(s, LAMBDA c : c \in Digits)

\* the number of characters of s after its ","
DecimalsOf(s) ==
  IF \E i \in 1..Len(s) : s[i] = ","
  THEN Len(DigitsOf(SubSeq(s, (CHOOSE i \in 1..Len(s) : s[i] = ",") + 1, Len(s))))
  ELSE 0

AbsentInputs ==
  { None, NaN, Str(<< >>), Str(<< "N", "a", "N" >>), Str(<< "N", "A" >>),
    Str(<< "N", "o", "n", "e" >>), Str(<< "n", "o", "n", "e" >>),
    Str(<< "n", "a", "n" >>), Str(<< "n", "a" >>), Str(Abe) }

\* C8: to_float never raises and returns a float or the absent marker: a
\* number n gives float(n), a string is read in the European convention
\* ("1.234,56" gives 1234.56), and the empty string, "NaN", "NA", "None",
\* None, a NaN float and a string that does not parse give absent.
C8_ToFloatTotal ==
  call.fn = "to_float" =>
    /\ ret.t \in {"float", "null"}
    /\ call.arg.t \in {"int", "hugeint"} => ret.t = "float"
    /\ call.arg.t = "int" => ret = Fin(IntVal(call.arg), 0)
    /\ call.arg.t = "str" /\ EuropeanNumber(call.arg.s) =>
         ret = Fin(DigitsToInt(DigitsOf(call.arg.s)), DecimalsOf(call.arg.s))
    /\ call.arg \in AbsentInputs => ret = None

\* the delta of the card is (last - previous) / previous * 100
DeltaIsPctChange(delta, last, prev) ==
  IF IsFinite(last) /\ IsFinite(prev)
  THEN /\ delta.t = "float" /\ delta.k = "ratio"
       /\ delta.m * Num(prev) * Den(last)
            = (Num(last) * Den(prev) - Num(prev) * Den(last)) * 100 * delta.d
  ELSE delta.t = "float" /\ delta.k \in {"nan", "inf"}

WithPeriod(out, p) == SelectSeq(out, LAMBDA o : o.period = p)

\* out is in ascending period order, holds the observations of unsorted with
\* those of equal period in their order in unsorted, and ends with an
\* observation of the greatest period
SortedStable(out, unsorted) ==
  /\ \A i \in 1..(Len(out) - 1) : ~StrLess(out[i + 1].period, out[i].period)
  /\ Len(out) = Len(unsorted)
  /\ \A i \in 1..Len(unsorted) :
       WithPeriod(out, unsorted[i].period) = WithPeriod(unsorted, unsorted[i].period)
  /\ \A i \in 1..Len(out) : ~StrLess(out[Len(out)].period, out[i].period)

\* C10: whenever read_json returns a dataset, for each shape and record
\* order, the dataset is in ascending period order, records of equal period
\* are all kept in their input order, and its last observation (the one
\* main() takes as last) has the greatest period.
C10_SortedStable ==
  call.fn = "read_json" =>
    /\ ret.flat.t = "dataset" =>
         SortedStable(ret.flat.out,
           NormalizeFrom(call.recs, 1, << >>, PeriodKeysFlat, ValueKeysFlat, call.pd).out)
    /\ \A r \in {ret.data, ret.wrapped} :
         r.t = "dataset" =>
           SortedStable(r.out,
             NormalizeFrom(call.recs, 1, << >>, PeriodKeysData, ValueKeysData, call.pd).out)

\* C10 witness: three records given out of period order, two of them of the
\* same period, returned sorted
C10_Witness ==
  /\ call.fn = "read_json"
  /\ Len(call.recs) = 3
  /\ ret.flat.t = "dataset"
  /\ Len(ret.flat.out) = 3
  /\ ret.flat.out[1].period # ret.flat.out[2].period
  /\ ret.flat.out[2].period = ret.flat.out[3].period
  /\ ret.flat.out[2].value # ret.flat.out[3].value
  /\ ret.flat.out #
       NormalizeFrom(call.recs, 1, << >>, PeriodKeysFlat, ValueKeysFlat, call.pd).out

\* a run of main() has ended, by returning or by an exception
Ended == pc \in {"done", "crashed"}

\* this run is not the first and has the inputs the run before it had
SameInputs == runs >= 2 /\ lastRun.excel = excel /\ lastRun.datas = datas

\* C11: a run of main() on the inputs of the run before it (same Excel list,
\* same data) leaves docs/cards and docs/index.html as that run left them: the
\* same PNG files with the same contents and the same index page.
C11_Idempotent ==
  Ended /\ SameInputs => cards = lastRun.cards /\ index = lastRun.index

\* a second run on unchanged inputs has drawn a card and written the page,
\* with a PNG of an earlier run in docs/cards that it did not draw
C11_Witness ==
  /\ pc = "done" /\ SameInputs
  /\ generadas > 0
  /\ index.t = "index"
  /\ \E tid \in Tids : cards[tid] # None /\ tid \notin drawn

\* the table ids the page has an item for
ItemSet(ix) == {ix.items[i] : i \in 1..Len(ix.items)}

FailedRow(i) ==
  /\ HasTableId(rows[i].URL) /\ ~args.dry_run
  /\ rows[i].fate # "ok"

\* the lines row i printed, in order, and the files it wrote
LinesOf(i) == SelectSeq(stdout, LAMBDA l : l.row = i)

FilesOf(i) == {f \in saved : f.row = i}

\* the tags of the lines row i printed
KindsOf(i) == [k \in 1..Len(LinesOf(i)) |-> LinesOf(i)[k].kind]

\* the extensions of the files row i wrote
ExtsOf(i) == {f.ext : f \in FilesOf(i)}

\* C12: update_data main() goes through every row and returns; a row whose
\* download, processing or saving fails has its error logged and nothing
\* saved for its table; every other row, also one after a failed row, is
\* processed as when no row fails: a row without a text URL or a table id
\* writes nothing and prints at most a warning, a dry run prints its line, and
\* a table that does not fail is saved as <id>.csv and <id>.json.
C12_FailureSkipsTable ==
  upc = "done" =>
    /\ rowIdx = Len(rows) + 1
    /\ \A i \in 1..Len(rows) :
         CASE FailedRow(i) ->
                /\ \E k \in 1..Len(LinesOf(i)) : KindsOf(i)[k] = "ERROR"
                /\ FilesOf(i) = {}
           [] ~HasTableId(rows[i].URL) ->
                /\ FilesOf(i) = {}
                /\ KindsOf(i) \in {<< >>, << "WARN" >>}
           [] HasTableId(rows[i].URL) /\ args.dry_run ->
                /\ FilesOf(i) = {}
                /\ KindsOf(i) = << "DRY" >>
           [] OTHER ->
                /\ ExtsOf(i) = {"csv", "json"}
                /\ \A f \in FilesOf(i) : f.id = extract_table_id(rows[i].URL.s)
                /\ KindsOf(i) = << "INFO" >>

\* s is "YYYYMmm" with mm a month, "YYYYTq" with q a quarter, or "YYYY"
\* (YYYY a year of datetime, 0001..9999): the first month of its period
FirstMonth(s) ==
  IF Len(s) = 7 /\ AllDigits(SubSeq(s, 1, 4)) /\ s[5] = "M" /\ AllDigits(SubSeq(s, 6, 7))
     /\ DigitsToInt(SubSeq(s, 6, 7)) \in 1..12
    THEN DigitsToInt(SubSeq(s, 6, 7))
  ELSE IF Len(s) = 6 /\ AllDigits(SubSeq(s, 1, 4)) /\ s[5] = "T" /\ s[6] \in {"1", "2", "3", "4"}
    THEN (DigitVal(s[6]) - 1) * 3 + 1
  ELSE IF Len(s) = 4 /\ AllDigits(s) THEN 1
  ELSE 0

\* C14: _parse_period never raises: for "YYYYMmm", "YYYYTq" and "YYYY" it
\* returns the first day of the period (month mm, month (q-1)*3+1, January),
\* and for a value that is none of these it returns None or, read leniently,
\* a first day of a month; a value without any digit gives None.
C14_ParsePeriodTotal ==
  call.fn = "parse_period" =>
    LET s == PyStr(call.arg)
    IN  /\ ret.t # "raise"
        /\ (FirstMonth(s) # 0 /\ DigitsToInt(SubSeq(s, 1, 4)) >= 1) =>
              ret = Datetime(DigitsToInt(SubSeq(s, 1, 4)), FirstMonth(s), 1)
        /\ (\A i \in 1..Len(s) : s[i] \notin Digits) => ret = None

====
